---- MODULE Spec2Model ----
(***************************************************************************)
(* The predicate index and resolution engine of reg (src/reg/predicate.py):*)
(* Predicate, KeyIndex, MultiPredicate, MultiIndex, PredicateRegistry and  *)
(* SingleValueRegistry, and the dispatch functions built on them: Dispatch *)
(* (src/reg/dispatch.py) and DispatchMethod (src/reg/context.py).          *)
(*                                                                         *)
(* Encoding of Python values.  Implementations, keys, classes and the      *)
(* sentinels are strings.  A lookup in an index (dict.get with a default)  *)
(* yields a set: the stored set of implementations, or the singleton of    *)
(* the sentinel that was passed as default, so "result is not NOT_FOUND"   *)
(* reads  result # {NOT_FOUND}.  The key of a registry over one Predicate  *)
(* is a bare value, the key of a registry over a MultiPredicate a tuple.   *)
(***************************************************************************)
EXTENDS Naturals, Integers, Sequences, FiniteSets, TLC

VARIABLES
  predicate,   \* PredicateRegistry.predicate: a Predicate or a MultiPredicate
  index,       \* PredicateRegistry.index: a KeyIndex or the list of a MultiIndex
  known_keys,  \* PredicateRegistry.known_keys
  hashorder,   \* the iteration order of sets of implementations in this run
  registered,  \* history: the <<key, value>> of every successful register
  last,        \* history: the last call made, with what it returned or raised
  single_value, \* SingleValueRegistry.value
  dispatch,    \* the fields of the Dispatch that owns the registry, if any
  threads,     \* the register calls in progress, one to a thread
  descriptor,  \* DispatchMethodDescriptor._cache: class -> DispatchMethod
  instances    \* the bound method set on each instance, if any

vars ==
  <<predicate, index, known_keys, hashorder, registered, last, single_value,
    dispatch, threads, descriptor, instances>>

\* what belongs to the threads and to the descriptor
others == <<threads, descriptor, instances>>

\* no thread is in a register call
NoThreads == [locked |-> TRUE, calls |-> <<>>]

\* no descriptor, no instance
NoDescriptor == <<>>

NoInstances == <<>>

InitOthers ==
  /\ threads = NoThreads
  /\ descriptor = NoDescriptor
  /\ instances = NoInstances

\* ---------------------------------------------------------------- bounds
\* accepted registrations per registry in the explored runs
MaxRegs == 3

\* ------------------------------------------------------- values and keys
NOT_FOUND == "NOT_FOUND"
None == "None"

\* the implementations that get registered
Values == {"f", "g"}

\* a declared fallback value of a predicate
FB1 == "fb1"
FB2 == "fb2"

\* The classes of the explored programs with their method resolution order:
\* class A(object), class B(A), and Old, a classic class whose mro does not
\* end at object.
Classes == {"object", "A", "B", "Old"}

getmro(c) ==
  CASE c = "object" -> <<"object">>
    [] c = "A" -> <<"A", "object">>
    [] c = "B" -> <<"B", "A", "object">>
    [] c = "Old" -> <<"Old">>
    [] c = "OldB" -> <<"OldB", "Old">>

\* the values of an exact-match axis
ExactKeys == {"x", "y"}

\* the classes registrations of a MultiPredicate registry are made under on
\* each class axis (a registry over one Predicate registers under any class)
RegClasses == {"object", "A"}

Elements(seq) == {seq[i] : i \in 1..Len(seq)}

\* ------------------------------------------------------------- Predicate
\* Predicate(create_index, permutations, get_key, fallback); create_index is
\* KeyIndex for both kinds, kind selects the permutations function.
Predicate(kind, fb) == [kind |-> kind, fallback |-> fb]

key_predicate(fb) == Predicate("key", fb)

class_predicate(fb) == Predicate("class", fb)

MultiPredicate(predicates) == [kind |-> "multi", predicates |-> predicates]

key_permutations(key) == <<key>>

\* a faulty variant: the mro alone, object not appended
class_permutations_mro(key) == getmro(key)

\* a faulty variant: object is appended whatever the mro ends with
class_permutations_always(key) == Append(getmro(key), "object")

class_permutations(key) ==
  LET mro == getmro(key)
      class_ == mro[Len(mro)]
  IN  IF class_ # "object" THEN Append(mro, "object") ELSE mro

Predicate_permutations(p, key) ==
  IF p.kind = "class" THEN class_permutations(key) ELSE key_permutations(key)

\* prefix every tuple of the sequence ts with the value v
RECURSIVE Prefixed(_, _)
Prefixed(v, ts) ==
  IF ts = <<>> THEN <<>> ELSE <<(<<v>> \o Head(ts))>> \o Prefixed(v, Tail(ts))

RECURSIVE Singletons(_)
Singletons(ps) ==
  IF ps = <<>> THEN <<>> ELSE <<(<<Head(ps)>>)>> \o Singletons(Tail(ps))

RECURSIVE multipredicate_permutations(_, _)
RECURSIVE OuterLoop(_, _, _)
\* the outer for loop of multipredicate_permutations over the permutations
\* of the first key, the inner loop being the recursive call
OuterLoop(perms, rest_predicates, rest) ==
  IF perms = <<>> THEN <<>>
  ELSE Prefixed(Head(perms), multipredicate_permutations(rest_predicates, rest))
       \o OuterLoop(Tail(perms), rest_predicates, rest)

multipredicate_permutations(predicates, keys) ==
  LET first == keys[1]
      rest == Tail(keys)
      first_predicate == predicates[1]
      rest_predicates == Tail(predicates)
  IN  IF rest = <<>>
      THEN Singletons(Predicate_permutations(first_predicate, first))
      ELSE OuterLoop(Predicate_permutations(first_predicate, first),
                     rest_predicates, rest)

\* -------------------------------------------------------------- KeyIndex
\* self.d, a dict from key to set of values, as a function on the keys held
KeyIndex == <<>>

KeyIndex_add(d, key, value) ==
  [k \in (DOMAIN d) \cup {key} |->
     IF k = key
     THEN (IF key \in DOMAIN d THEN d[key] ELSE {}) \cup {value}
     ELSE d[k]]

KeyIndex_get(d, key, default) ==
  IF key \in DOMAIN d THEN d[key] ELSE {default}

\* ------------------------------------------------------------ MultiIndex
MultiIndex(predicates) == [i \in 1..Len(predicates) |-> KeyIndex]

\* a faulty variant: the value is filed on the first axis alone
MultiIndex_add_first(indexes, keys, value) ==
  [i \in 1..Len(indexes) |->
     IF i = 1 THEN KeyIndex_add(indexes[i], keys[i], value) ELSE indexes[i]]

MultiIndex_add(indexes, keys, value) ==
  [i \in 1..Len(indexes) |->
     IF i <= Len(keys) THEN KeyIndex_add(indexes[i], keys[i], value)
     ELSE indexes[i]]

\* "if not match": match is None or an empty set
Falsy(match) == match = {None} \/ match = {}

\* matches.sort(key=len): a stable insertion sort by cardinality
RECURSIVE Insert(_, _)
Insert(m, sorted) ==
  IF sorted = <<>> THEN <<m>>
  ELSE IF Cardinality(m) < Cardinality(Head(sorted))
       THEN <<m>> \o sorted
       ELSE <<Head(sorted)>> \o Insert(m, Tail(sorted))

RECURSIVE SortByLen(_)
SortByLen(matches) ==
  IF matches = <<>> THEN <<>>
  ELSE Insert(matches[Len(matches)],
              SortByLen(SubSeq(matches, 1, Len(matches) - 1)))

\* a faulty variant: the smallest set is returned, nothing is intersected
Intersect_smallest(matches, i, result, default) == matches[1]

\* the second loop of MultiIndex.get: intersect, bail out when nothing left
RECURSIVE Intersect(_, _, _, _)
Intersect(matches, i, result, default) ==
  IF i > Len(matches) THEN result
  ELSE LET r == IF i = 1 THEN matches[1] ELSE result \cap matches[i]
       IN  IF r = {} THEN {default}
           ELSE Intersect(matches, i + 1, r, default)

MultiIndex_get(indexes, keys, default) ==
  LET n == IF Len(indexes) < Len(keys) THEN Len(indexes) ELSE Len(keys)
      match(i) == KeyIndex_get(indexes[i], keys[i], None)
  IN  IF \E i \in 1..n : Falsy(match(i)) THEN {default}
      ELSE Intersect(SortByLen([i \in 1..n |-> match(i)]), 1, {}, default)

\* ---------------------------------------------------- Predicate.fallback
\* the for loop of Predicate.fallback over the permutations from position i
RECURSIVE FallbackLoop(_, _, _, _)
FallbackLoop(p, d, perms, i) ==
  IF i > Len(perms) THEN p.fallback
  ELSE IF KeyIndex_get(d, perms[i], NOT_FOUND) # {NOT_FOUND} THEN NOT_FOUND
       ELSE FallbackLoop(p, d, perms, i + 1)

\* a faulty variant: probes the key alone, not its permutations
Predicate_fallback_key_only(p, d, key) ==
  FallbackLoop(p, d, key_permutations(key), 1)

Predicate_fallback(p, d, key) ==
  FallbackLoop(p, d, Predicate_permutations(p, key), 1)

\* the for loop of MultiPredicate.fallback over the zipped axes from axis i
RECURSIVE MultiFallbackLoop(_, _, _, _)
MultiFallbackLoop(predicates, indexes, key, i) ==
  IF i > Len(indexes) \/ i > Len(key) \/ i > Len(predicates) THEN NOT_FOUND
  ELSE LET result == Predicate_fallback(predicates[i], indexes[i], key[i])
       IN  IF result # NOT_FOUND THEN result
           ELSE MultiFallbackLoop(predicates, indexes, key, i + 1)

\* a faulty variant: an axis without a declared fallback is passed over, so
\* that the fallback declared by a later axis is returned
RECURSIVE DeclaredFallbackLoop(_, _, _, _)
DeclaredFallbackLoop(predicates, indexes, key, i) ==
  IF i > Len(indexes) \/ i > Len(key) \/ i > Len(predicates) THEN NOT_FOUND
  ELSE LET result == Predicate_fallback(predicates[i], indexes[i], key[i])
       IN  IF result # NOT_FOUND /\ result # None THEN result
           ELSE DeclaredFallbackLoop(predicates, indexes, key, i + 1)

MultiPredicate_fallback_declared(predicates, multi_index, key) ==
  DeclaredFallbackLoop(predicates, multi_index, key, 1)

MultiPredicate_fallback(predicates, multi_index, key) ==
  MultiFallbackLoop(predicates, multi_index, key, 1)

\* ----------------------------------- dispatch on the registry's predicate
IsMulti(p) == p.kind = "multi"

create_index(p) == IF IsMulti(p) THEN MultiIndex(p.predicates) ELSE KeyIndex

permutations(p, key) ==
  IF IsMulti(p) THEN multipredicate_permutations(p.predicates, key)
  ELSE Predicate_permutations(p, key)

index_add(p, idx, key, value) ==
  IF IsMulti(p) THEN MultiIndex_add(idx, key, value)
  ELSE KeyIndex_add(idx, key, value)

index_get(p, idx, key, default) ==
  IF IsMulti(p) THEN MultiIndex_get(idx, key, default)
  ELSE KeyIndex_get(idx, key, default)

predicate_fallback(p, idx, key) ==
  IF IsMulti(p) THEN MultiPredicate_fallback(p.predicates, idx, key)
  ELSE Predicate_fallback(p, idx, key)

\* ----------------------------------------------------- PredicateRegistry
\* tuple(result)[0]: the first element of a set in its iteration order;
\* the order is fixed by the hashes of the run, hashorder
RECURSIVE FirstIn(_, _)
FirstIn(order, s) ==
  IF Head(order) \in s THEN Head(order) ELSE FirstIn(Tail(order), s)

TupleFirst(order, s) == FirstIn(order, s)

\* the generator PredicateRegistry.all, as the sequence it yields
RECURSIVE AllLoop(_, _, _, _, _)
AllLoop(p, idx, order, perms, i) ==
  IF i > Len(perms) THEN <<>>
  ELSE LET result == index_get(p, idx, perms[i], NOT_FOUND)
       IN  (IF result # {NOT_FOUND} THEN <<TupleFirst(order, result)>> ELSE <<>>)
           \o AllLoop(p, idx, order, perms, i + 1)

PredicateRegistry_all(p, idx, order, key) ==
  AllLoop(p, idx, order, permutations(p, key), 1)

PredicateRegistry_fallback(p, idx, key) == predicate_fallback(p, idx, key)

\* a faulty variant: the least specific match instead of the most specific
PredicateRegistry_component_last(p, idx, order, key) ==
  LET found == PredicateRegistry_all(p, idx, order, key)
  IN  IF found = <<>> THEN PredicateRegistry_fallback(p, idx, key)
      ELSE found[Len(found)]

\* a faulty variant: a miss is returned without asking for the fallback
PredicateRegistry_component_no_fallback(p, idx, order, key) ==
  LET found == PredicateRegistry_all(p, idx, order, key)
  IN  IF found = <<>> THEN NOT_FOUND ELSE Head(found)

\* next(self.all(key), NOT_FOUND), then the fallback on a miss
PredicateRegistry_component(p, idx, order, key) ==
  LET found == PredicateRegistry_all(p, idx, order, key)
      result == IF found = <<>> THEN NOT_FOUND ELSE Head(found)
  IN  IF result = NOT_FOUND THEN PredicateRegistry_fallback(p, idx, key)
      ELSE result

\* ------------------------------------------------------ keys of the runs
RECURSIVE Tuples(_, _)
\* the tuples with one member of sets[i] at each position i >= from
Tuples(sets, from) ==
  IF from > Len(sets) THEN {<<>>}
  ELSE {<<a>> \o t : a \in sets[from], t \in Tuples(sets, from + 1)}

AxisKeys(p) == IF p.kind = "class" THEN Classes ELSE ExactKeys

AxisRegKeys(p) == IF p.kind = "class" THEN RegClasses ELSE ExactKeys

\* keys registered under, and keys looked up, for a registry over p
RegKeys(p) ==
  IF IsMulti(p)
  THEN Tuples([i \in 1..Len(p.predicates) |-> AxisRegKeys(p.predicates[i])], 1)
  ELSE AxisKeys(p)

LookupKeys(p) ==
  IF IsMulti(p)
  THEN Tuples([i \in 1..Len(p.predicates) |-> AxisKeys(p.predicates[i])], 1)
  ELSE AxisKeys(p)

\* the predicates the explored registries are built over
SinglePredicates ==
  {class_predicate(None), class_predicate(FB1), key_predicate(None),
   key_predicate(FB2)}

MultiPredicates ==
  {MultiPredicate(<<class_predicate(None), class_predicate(None)>>),
   MultiPredicate(<<class_predicate(None), key_predicate(None)>>)}

\* MultiPredicates of which an axis declares a fallback
FallbackPredicates ==
  {MultiPredicate(<<class_predicate(None), key_predicate(FB2)>>),
   MultiPredicate(<<class_predicate(FB1), key_predicate(FB2)>>),
   MultiPredicate(<<class_predicate(FB1), key_predicate(None)>>)}

HashOrders == {<<"f", "g">>, <<"g", "f">>}

\* ------------------------------------------------------------ the system
NoCall == [op |-> "none"]

\* a registry used on its own, outside a Dispatch
NoDispatch == [kind |-> "none"]

\* a SingleValueRegistry has no predicate and no index
NoPredicate == [kind |-> "none"]

\* PredicateRegistry.__init__
InitWith(predicates) ==
  /\ predicate \in predicates
  /\ index = create_index(predicate)
  /\ known_keys = {}
  /\ hashorder \in HashOrders
  /\ registered = {}
  /\ last = NoCall
  /\ single_value = None
  /\ dispatch = NoDispatch
  /\ InitOthers

\* PredicateRegistry.register(key, value)
Register(key, value) ==
  IF key \in known_keys
  THEN /\ last' = [op |-> "register", key |-> key, value |-> value,
                   raised |-> "RegistrationError"]
       /\ UNCHANGED <<predicate, index, known_keys, hashorder, registered,
                 single_value, dispatch, others>>
  ELSE /\ Cardinality(known_keys) < MaxRegs
       /\ index' = index_add(predicate, index, key, value)
       /\ known_keys' = known_keys \cup {key}
       /\ registered' = registered \cup {<<key, value>>}
       /\ last' = [op |-> "register", key |-> key, value |-> value,
                   raised |-> None]
       /\ UNCHANGED <<predicate, hashorder, single_value, dispatch, others>>

\* the iteration order of sets turned around
RECURSIVE Reversed(_)
Reversed(order) ==
  IF order = <<>> THEN <<>> ELSE Append(Reversed(Tail(order)), Head(order))

\* a faulty variant: the sets are iterated in another order after the call
Component_reordering(key) ==
  /\ last' = [op |-> "component", key |-> key,
              result |-> PredicateRegistry_component(predicate, index,
                                                     hashorder, key)]
  /\ hashorder' = Reversed(hashorder)
  /\ UNCHANGED <<predicate, index, known_keys, registered, single_value,
                 dispatch, others>>

\* PredicateRegistry.component(key)
Component(key) ==
  /\ last' = [op |-> "component", key |-> key,
              result |-> PredicateRegistry_component(predicate, index,
                                                     hashorder, key)]
  /\ UNCHANGED <<predicate, index, known_keys, hashorder, registered,
                 single_value, dispatch, others>>

\* a faulty variant: the key asked for is kept as a known key
Fallback_recording(key) ==
  /\ last' = [op |-> "fallback", key |-> key,
              result |-> PredicateRegistry_fallback(predicate, index, key)]
  /\ known_keys' = known_keys \cup {key}
  /\ UNCHANGED <<predicate, index, hashorder, registered, single_value,
                 dispatch, others>>

\* PredicateRegistry.fallback(key)
Fallback(key) ==
  /\ last' = [op |-> "fallback", key |-> key,
              result |-> PredicateRegistry_fallback(predicate, index, key)]
  /\ UNCHANGED <<predicate, index, known_keys, hashorder, registered,
                 single_value, dispatch, others>>

\* list(PredicateRegistry.all(key))
All(key) ==
  /\ last' = [op |-> "all", key |-> key,
              result |-> PredicateRegistry_all(predicate, index, hashorder, key)]
  /\ UNCHANGED <<predicate, index, known_keys, hashorder, registered,
                 single_value, dispatch, others>>

DoRegister == \E key \in RegKeys(predicate), value \in Values : Register(key, value)

DoComponent == \E key \in LookupKeys(predicate) : Component(key)

DoFallback == \E key \in LookupKeys(predicate) : Fallback(key)

DoAll == \E key \in LookupKeys(predicate) : All(key)

Next == DoRegister \/ DoComponent \/ DoFallback \/ DoAll

Init == InitWith(SinglePredicates \cup MultiPredicates)

InitSingle == InitWith(SinglePredicates)

InitMulti == InitWith(MultiPredicates)

InitFallback == InitWith(FallbackPredicates)

\* the keys whose permutations are asked for; OldB is a classic class
\* with the classic base Old
PermutationKeys(p) == IF p.kind = "class" THEN Classes \cup {"OldB"}
                      ELSE ExactKeys

\* tuple(self.predicate.permutations(key))
PermutationsOf(key) ==
  /\ last' = [op |-> "permutations", key |-> key,
              result |-> permutations(predicate, key)]
  /\ UNCHANGED <<predicate, index, known_keys, hashorder, registered,
                 single_value, dispatch, others>>

DoPermutations == \E key \in PermutationKeys(predicate) : PermutationsOf(key)

NextPermutations == DoRegister \/ DoPermutations

\* the MultiPredicates whose MultiIndex is read directly
IndexPredicates ==
  MultiPredicates \cup
  {MultiPredicate(<<key_predicate(None), key_predicate(None),
                    key_predicate(None)>>)}

InitIndex == InitWith(IndexPredicates)

\* the defaults index.get is called with
Defaults == {NOT_FOUND, None}

\* self.index.get(keys, default) on the MultiIndex of the registry
IndexGet(keys, default) ==
  /\ last' = [op |-> "get", keys |-> keys, default |-> default,
              result |-> MultiIndex_get(index, keys, default)]
  /\ UNCHANGED <<predicate, index, known_keys, hashorder, registered,
                 single_value, dispatch, others>>

DoIndexGet ==
  \E keys \in LookupKeys(predicate), default \in Defaults :
    IndexGet(keys, default)

NextIndex == DoRegister \/ DoIndexGet

\* --------------------------------------------------- SingleValueRegistry
\* what gets registered in a SingleValueRegistry: a callable, a value that
\* cannot be called, and None
SingleValues == {"f", "s", None}

\* the keys a SingleValueRegistry is called with; it ignores them
SingleKeys == {<<>>, <<"x">>}

\* SingleValueRegistry.__init__
InitSingleValue ==
  /\ predicate = NoPredicate
  /\ index = <<>>
  /\ known_keys = {}
  /\ hashorder \in HashOrders
  /\ registered = {}
  /\ last = NoCall
  /\ single_value = None
  /\ dispatch = NoDispatch
  /\ InitOthers

SingleValueRegistry_component(v, key) == v

\* list(SingleValueRegistry.all(key))
SingleValueRegistry_all(v, key) == <<v>>

\* SingleValueRegistry.register(key, v)
SingleValueRegistry_register(key, v) ==
  IF single_value # None
  THEN /\ last' = [op |-> "register", key |-> key, value |-> v,
                   raised |-> "RegistrationError"]
       /\ UNCHANGED <<predicate, index, known_keys, hashorder, registered,
                      single_value, dispatch, others>>
  ELSE /\ Cardinality(registered) < MaxRegs
       /\ single_value' = v
       /\ registered' = registered \cup {<<key, v>>}
       /\ last' = [op |-> "register", key |-> key, value |-> v,
                   raised |-> None]
       /\ UNCHANGED <<predicate, index, known_keys, hashorder, dispatch, others>>

DoSingleRegister ==
  \E key \in SingleKeys, v \in SingleValues : SingleValueRegistry_register(key, v)

DoSingleComponent ==
  \E key \in SingleKeys :
    /\ last' = [op |-> "component", key |-> key,
                result |-> SingleValueRegistry_component(single_value, key)]
    /\ UNCHANGED <<predicate, index, known_keys, hashorder, registered,
                   single_value, dispatch, others>>

DoSingleAll ==
  \E key \in SingleKeys :
    /\ last' = [op |-> "all", key |-> key,
                result |-> SingleValueRegistry_all(single_value, key)]
    /\ UNCHANGED <<predicate, index, known_keys, hashorder, registered,
                   single_value, dispatch, others>>

NextSingleValue == DoSingleRegister \/ DoSingleComponent \/ DoSingleAll

\* registries over one Predicate and over a MultiPredicate
Spec == Init /\ [][Next]_vars

\* registries over one Predicate
SpecSingle == InitSingle /\ [][Next]_vars

\* registries over a MultiPredicate
SpecMulti == InitMulti /\ [][Next]_vars

\* registries over a MultiPredicate with declared fallbacks
SpecFallback == InitFallback /\ [][Next]_vars

\* the MultiIndex of a registry, filled by register and read by get
SpecIndex == InitIndex /\ [][NextIndex]_vars

\* the permutations of the keys of a registry over one Predicate
SpecPermutations == InitSingle /\ [][NextPermutations]_vars

\* -------------------------------------------------------------- Dispatch
\* arginfo(callable): the names of the arguments, of *args and of **kw
ArgInfo(args, varargs, keywords) ==
  [args |-> args, varargs |-> varargs, keywords |-> keywords]

\* arginfo gives None for what cannot be called
NoArgInfo == [none |-> TRUE]

\* The callables of the explored programs:
\*   def default(obj), def method_default(self, obj): the functions wrapped
\*   by a Dispatch and by a DispatchMethod;
\*   def f(obj), def g(o), def h(obj, extra): the candidates; "s" is a
\*   value that is not callable;
\*   def v(obj, *args, **kw), def w(obj, *rest, **options): callables that
\*   take any further arguments.
arginfo(callable) ==
  CASE callable = "default" -> ArgInfo(<<"obj">>, None, None)
    [] callable = "method_default" -> ArgInfo(<<"self", "obj">>, None, None)
    [] callable = "f" -> ArgInfo(<<"obj">>, None, None)
    [] callable = "g" -> ArgInfo(<<"o">>, None, None)
    [] callable = "h" -> ArgInfo(<<"obj", "extra">>, None, None)
    [] callable = "s" -> NoArgInfo
    [] callable = "v" -> ArgInfo(<<"obj">>, "args", "kw")
    [] callable = "w" -> ArgInfo(<<"obj">>, "rest", "options")

Candidates == {"f", "g", "h", "s"}

\* methodify(func): a wrapper that takes and ignores a first argument
methodify(func) ==
  CASE func = "f" -> "methodify(f)"
    [] func = "g" -> "methodify(g)"
    [] func = "h" -> "methodify(h)"

\* the iteration orders of the sets of what a Dispatch registers
DispatchHashOrders ==
  {<<"f", "g", "h", "s", "methodify(f)", "methodify(g)", "methodify(h)">>,
   <<"methodify(h)", "methodify(g)", "methodify(f)", "s", "h", "g", "f">>}

same_signature(a, b) ==
  /\ Cardinality(Elements(a.args)) = Cardinality(Elements(b.args))
  /\ a.varargs = b.varargs
  /\ a.keywords = b.keywords

\* validate_signature(f, dispatch): what it raises, None when it returns
validate_signature(f, dispatch_func) ==
  IF arginfo(f) = NoArgInfo THEN "RegistrationError"
  ELSE IF ~same_signature(arginfo(dispatch_func), arginfo(f))
       THEN "RegistrationError"
       ELSE None

validate_signature_without_first_arg(f, dispatch_func) ==
  IF arginfo(f) = NoArgInfo THEN "RegistrationError"
  ELSE LET dispatch_arginfo == arginfo(dispatch_func)
           stripped == ArgInfo(Tail(dispatch_arginfo.args),
                               dispatch_arginfo.varargs,
                               dispatch_arginfo.keywords)
       IN  IF ~same_signature(stripped, arginfo(f)) THEN "RegistrationError"
           ELSE None

\* create_predicates_registry(predicates), as the fields of the registry:
\* a SingleValueRegistry without predicates, a PredicateRegistry over the
\* predicate itself for one, over their MultiPredicate for more
create_predicates_registry(predicates) ==
  IF Len(predicates) = 0
  THEN [predicate |-> NoPredicate, index |-> <<>>]
  ELSE LET p == IF Len(predicates) = 1 THEN predicates[1]
                ELSE MultiPredicate(predicates)
       IN  [predicate |-> p, index |-> create_index(p)]

\* registry.key(d), d holding for each axis the value its extractor gives
registry_key(p, d) ==
  IF p = NoPredicate THEN <<>>
  ELSE IF IsMulti(p) THEN [i \in 1..Len(p.predicates) |-> d[i]]
       ELSE d[1]

\* the fallback of a SingleValueRegistry
SingleValueRegistry_fallback(v, key) == None

key_lookup_component(p, idx, v, order, key) ==
  IF p = NoPredicate THEN SingleValueRegistry_component(v, key)
  ELSE PredicateRegistry_component(p, idx, order, key)

key_lookup_fallback(p, idx, v, key) ==
  IF p = NoPredicate THEN SingleValueRegistry_fallback(v, key)
  ELSE PredicateRegistry_fallback(p, idx, key)

\* the truth value of what a lookup returns: None and NOT_FOUND are false
Truthy(v) == v \notin {None, NOT_FOUND}

\* a faulty variant: a miss is called, there is no "or _fallback"
Dispatch_call_no_default(p, idx, v, order, d, wrapped_func) ==
  LET _key == registry_key(p, d)
      c == key_lookup_component(p, idx, v, order, _key)
  IN  IF Truthy(c) THEN c ELSE key_lookup_fallback(p, idx, v, _key)

\* a faulty variant: the lookup goes to the registry as it was created
Dispatch_call_stale(p, idx, v, order, d, wrapped_func) ==
  LET _key == registry_key(p, d)
      idx0 == IF p = NoPredicate THEN idx ELSE create_index(p)
      c == key_lookup_component(p, idx0, None, order, _key)
      fb == key_lookup_fallback(p, idx0, None, _key)
  IN  IF Truthy(c) THEN c ELSE IF Truthy(fb) THEN fb ELSE wrapped_func

\* the generated __call__: what it calls with the arguments of the call,
\* (_component_lookup(_key) or _fallback_lookup(_key) or _fallback)
Dispatch_call(p, idx, v, order, d, wrapped_func) ==
  LET _key == registry_key(p, d)
      c == key_lookup_component(p, idx, v, order, _key)
      fb == key_lookup_fallback(p, idx, v, _key)
  IN  IF Truthy(c) THEN c ELSE IF Truthy(fb) THEN fb ELSE wrapped_func

\* a faulty variant: the given predicates replace the current ones
added_predicates_only(current, predicates) == predicates

\* self.predicates + predicates
added_predicates(current, predicates) == current \o predicates

\* the dispatch functions of the explored programs
DispatchDefs ==
  {[kind |-> "Dispatch", wrapped_func |-> "default", predicates |-> <<>>],
   [kind |-> "Dispatch", wrapped_func |-> "default",
    predicates |-> <<class_predicate(None)>>],
   [kind |-> "Dispatch", wrapped_func |-> "default",
    predicates |-> <<class_predicate(FB1), key_predicate(None)>>],
   [kind |-> "DispatchMethod", wrapped_func |-> "method_default",
    predicates |-> <<key_predicate(None)>>]}

\* the predicates passed to add_predicates
AddedPredicates == {<<key_predicate(None)>>}

\* the lists of predicates add_predicates is explored up to
AddedAxisLists ==
  {<<key_predicate(None)>>, <<class_predicate(None), key_predicate(None)>>}

\* the predicate keys a Dispatch over predicates registers under
DispatchRegKeys(predicates) ==
  Tuples([i \in 1..Len(predicates) |-> AxisRegKeys(predicates[i])], 1)

\* the values of the arguments of a call, one for each axis
DispatchArgs(predicates) ==
  Tuples([i \in 1..Len(predicates) |-> AxisKeys(predicates[i])], 1)

\* Dispatch.__init__(predicates, callable, get_key_lookup)
InitDispatch ==
  \E def \in DispatchDefs :
    LET registry == create_predicates_registry(def.predicates)
    IN  /\ dispatch = [kind |-> def.kind, wrapped_func |-> def.wrapped_func,
                       original_predicates |-> def.predicates,
                       predicates |-> def.predicates]
        /\ predicate = registry.predicate
        /\ index = registry.index
        /\ known_keys = {}
        /\ single_value = None
        /\ hashorder \in DispatchHashOrders
        /\ registered = {}
        /\ last = NoCall
        /\ InitOthers

\* Dispatch._register_predicates(predicates): a new registry
Dispatch_register_predicates(predicates) ==
  LET registry == create_predicates_registry(predicates)
  IN  /\ predicate' = registry.predicate
      /\ index' = registry.index
      /\ known_keys' = {}
      /\ single_value' = None
      /\ dispatch' = [dispatch EXCEPT !.predicates = predicates]
      /\ registered' = {}
      /\ UNCHANGED <<hashorder, others>>

\* Dispatch.add_predicates(predicates)
Dispatch_add_predicates(predicates) ==
  /\ added_predicates(dispatch.predicates, predicates) \in AddedAxisLists
  /\ Dispatch_register_predicates(
        added_predicates(dispatch.predicates, predicates))
  /\ last' = [op |-> "add_predicates", predicates |-> predicates,
              had |-> registered]

\* a faulty variant: the registry is built over the current predicates
Dispatch_clean_current ==
  /\ Dispatch_register_predicates(dispatch.predicates)
  /\ last' = [op |-> "clean", had |-> registered]

\* Dispatch.clean()
Dispatch_clean ==
  /\ Dispatch_register_predicates(dispatch.original_predicates)
  /\ last' = [op |-> "clean", had |-> registered]

\* Dispatch.register_value(predicate_key, value), made by the call `call`;
\* registry.register is that of the registry the Dispatch owns
Dispatch_register_value(predicate_key, val, call) ==
  LET key == IF Len(predicate_key) = 1 THEN predicate_key[1]
             ELSE predicate_key
      taken == IF predicate = NoPredicate THEN single_value # None
               ELSE key \in known_keys
  IN  IF taken
      THEN /\ last' = [call EXCEPT !.raised = "RegistrationError"]
           /\ UNCHANGED <<predicate, index, known_keys, hashorder,
                          registered, single_value, dispatch, others>>
      ELSE /\ Cardinality(registered) < MaxRegs
           /\ IF predicate = NoPredicate
              THEN /\ single_value' = val
                   /\ UNCHANGED <<index, known_keys>>
              ELSE /\ index' = index_add(predicate, index, key, val)
                   /\ known_keys' = known_keys \cup {key}
                   /\ UNCHANGED single_value
           /\ registered' = registered \cup {<<key, val>>}
           /\ last' = call
           /\ UNCHANGED <<predicate, hashorder, dispatch, others>>

\* a faulty variant: the value is registered before the signature is checked
Dispatch_register_unchecked(func, predicate_key) ==
  Dispatch_register_value(predicate_key, func,
    [op |-> "register", func |-> func, key |-> predicate_key,
     raised |-> validate_signature(func, dispatch.wrapped_func)])

\* Dispatch.register(func, **key_dict), predicate_key being the key that
\* key_dict_to_predicate_key gives for key_dict
Dispatch_register(func, predicate_key) ==
  LET call == [op |-> "register", func |-> func, key |-> predicate_key,
               raised |-> None]
  IN  IF validate_signature(func, dispatch.wrapped_func) # None
      THEN /\ last' = [call EXCEPT !.raised = "RegistrationError"]
           /\ UNCHANGED <<predicate, index, known_keys, hashorder,
                          registered, single_value, dispatch, others>>
      ELSE Dispatch_register_value(predicate_key, func, call)

\* DispatchMethod.register_function(func, **key_dict)
DispatchMethod_register_function(func, predicate_key) ==
  LET call == [op |-> "register_function", func |-> func,
               key |-> predicate_key, raised |-> None]
  IN  /\ dispatch.kind = "DispatchMethod"
      /\ IF validate_signature_without_first_arg(
              func, dispatch.wrapped_func) # None
         THEN /\ last' = [call EXCEPT !.raised = "RegistrationError"]
              /\ UNCHANGED <<predicate, index, known_keys, hashorder,
                             registered, single_value, dispatch, others>>
         ELSE Dispatch_register_value(predicate_key, methodify(func), call)

\* a call of the dispatch function with arguments of the values args
Call(args) ==
  /\ last' = [op |-> "call", args |-> args,
              key |-> registry_key(predicate, args),
              invoked |-> <<[callable |->
                               Dispatch_call(predicate, index, single_value,
                                             hashorder, args,
                                             dispatch.wrapped_func),
                             args |-> args]>>]
  /\ UNCHANGED <<predicate, index, known_keys, hashorder, registered,
                 single_value, dispatch, others>>

DoCall == \E args \in DispatchArgs(dispatch.predicates) : Call(args)

DoDispatchRegister ==
  \E func \in Candidates, key \in DispatchRegKeys(dispatch.predicates) :
    Dispatch_register(func, key)

DoRegisterFunction ==
  \E func \in Candidates, key \in DispatchRegKeys(dispatch.predicates) :
    DispatchMethod_register_function(func, key)

DoAddPredicates ==
  \E predicates \in AddedPredicates : Dispatch_add_predicates(predicates)

DoClean == Dispatch_clean

NextDispatch ==
  DoCall \/ DoDispatchRegister \/ DoRegisterFunction \/ DoAddPredicates
    \/ DoClean

\* ------------------------------------------------------- signature check
\* the signatures same_signature is applied to
SignatureArgs == {<<>>, <<"x">>, <<"y">>, <<"x", "y">>}

VarargsNames == {None, "args", "rest"}

KeywordsNames == {None, "kw", "options"}

ArgInfos ==
  {ArgInfo(args, varargs, keywords) :
     args \in SignatureArgs, varargs \in VarargsNames,
     keywords \in KeywordsNames}

\* the callables validate_signature is applied to
Callables == {"default", "method_default", "f", "g", "h", "s", "v", "w"}

\* no registry, no call made
InitSignature ==
  /\ predicate = NoPredicate
  /\ index = <<>>
  /\ known_keys = {}
  /\ hashorder = <<"f", "g">>
  /\ registered = {}
  /\ last = NoCall
  /\ single_value = None
  /\ dispatch = NoDispatch
  /\ InitOthers

\* a call same_signature(a, b)
DoSameSignature ==
  \E a \in ArgInfos, b \in ArgInfos :
    /\ last' = [op |-> "same_signature", a |-> a, b |-> b,
                result |-> same_signature(a, b)]
    /\ UNCHANGED <<predicate, index, known_keys, hashorder, registered,
                   single_value, dispatch, others>>

\* a call validate_signature(f, dispatch)
DoValidateSignature ==
  \E f \in Callables, dispatch_func \in Callables \ {"s"} :
    /\ last' = [op |-> "validate_signature", f |-> f,
                dispatch |-> dispatch_func,
                raised |-> validate_signature(f, dispatch_func)]
    /\ UNCHANGED <<predicate, index, known_keys, hashorder, registered,
                   single_value, dispatch, others>>

NextSignature == DoSameSignature \/ DoValidateSignature

\* the signature check on its own
SpecSignature == InitSignature /\ [][NextSignature]_vars

\* -------------------------------------------- register from many threads
\* the threads that call PredicateRegistry.register, one call each
Threads == {"t1", "t2", "t3"}

\* the registries the threads share
ThreadPredicates ==
  {key_predicate(None),
   MultiPredicate(<<class_predicate(None), key_predicate(None)>>)}

\* a thread outside register
Idle == [pc |-> "idle"]

\* the statements of register a thread can be in front of
InRegister == {"check", "add", "record"}

\* threads.locked: the callers hold one lock around every register call
InitThreads ==
  /\ predicate \in ThreadPredicates
  /\ index = create_index(predicate)
  /\ known_keys = {}
  /\ hashorder = <<"f", "g">>
  /\ registered = {}
  /\ last = NoCall
  /\ single_value = None
  /\ dispatch = NoDispatch
  /\ threads \in {[locked |-> l, calls |-> [t \in Threads |-> Idle]] :
                    l \in BOOLEAN}
  /\ descriptor = NoDescriptor
  /\ instances = NoInstances

\* the number of KeyIndex.add calls one index.add makes
AddSteps(p) == IF IsMulti(p) THEN Len(p.predicates) ELSE 1

\* the i-th KeyIndex.add of index.add(key, value)
index_add_step(p, idx, key, value, i) ==
  IF IsMulti(p)
  THEN [idx EXCEPT ![i] = KeyIndex_add(idx[i], key[i], value)]
  ELSE KeyIndex_add(idx, key, value)

\* thread t calls register(key, value); with the lock, it waits for its turn
ThreadCall(t, key, value) ==
  /\ threads.calls[t].pc = "idle"
  /\ threads.locked =>
       \A u \in Threads : threads.calls[u].pc \notin InRegister
  /\ threads' = [threads EXCEPT !.calls[t] =
                   [pc |-> "check", key |-> key, value |-> value, axis |-> 1]]
  /\ UNCHANGED <<predicate, index, known_keys, hashorder, registered, last,
                 single_value, dispatch, descriptor, instances>>

\* a faulty variant: the key is not looked for among the known keys
ThreadCheck_unchecked(t) ==
  /\ threads.calls[t].pc = "check"
  /\ threads' = [threads EXCEPT !.calls[t].pc = "add"]
  /\ UNCHANGED <<predicate, index, known_keys, hashorder, registered, last,
                 single_value, dispatch, descriptor, instances>>

\* if key in self.known_keys: raise RegistrationError
ThreadCheck(t) ==
  /\ threads.calls[t].pc = "check"
  /\ threads' = [threads EXCEPT !.calls[t].pc =
                   IF threads.calls[t].key \in known_keys
                   THEN "raised" ELSE "add"]
  /\ UNCHANGED <<predicate, index, known_keys, hashorder, registered, last,
                 single_value, dispatch, descriptor, instances>>

\* self.index.add(key, value), one KeyIndex.add at a time
ThreadIndexAdd(t) ==
  LET call == threads.calls[t]
  IN  /\ call.pc = "add"
      /\ index' = index_add_step(predicate, index, call.key, call.value,
                                 call.axis)
      /\ threads' = [threads EXCEPT !.calls[t] =
                       IF call.axis < AddSteps(predicate)
                       THEN [call EXCEPT !.axis = call.axis + 1]
                       ELSE [call EXCEPT !.pc = "record"]]
      /\ UNCHANGED <<predicate, known_keys, hashorder, registered, last,
                     single_value, dispatch, descriptor, instances>>

\* self.known_keys.add(key), and the call returns
ThreadRecord(t) ==
  LET call == threads.calls[t]
  IN  /\ call.pc = "record"
      /\ known_keys' = known_keys \cup {call.key}
      /\ registered' = registered \cup {<<call.key, call.value>>}
      /\ threads' = [threads EXCEPT !.calls[t].pc = "returned"]
      /\ UNCHANGED <<predicate, index, hashorder, last, single_value,
                     dispatch, descriptor, instances>>

DoThreadCall ==
  \E t \in Threads, key \in RegKeys(predicate), value \in Values :
    ThreadCall(t, key, value)

DoThreadCheck == \E t \in Threads : ThreadCheck(t)

DoThreadIndexAdd == \E t \in Threads : ThreadIndexAdd(t)

DoThreadRecord == \E t \in Threads : ThreadRecord(t)

NextThreads ==
  DoThreadCall \/ DoThreadCheck \/ DoThreadIndexAdd \/ DoThreadRecord

\* register called from several threads, with and without a lock around it
SpecThreads == InitThreads /\ [][NextThreads]_vars

\* ---------------------------------------------- DispatchMethodDescriptor
\* the classes the dispatch method is reached through: A, where it is
\* defined, and its subclass B
OwnerClasses == {"A", "B"}

\* the instances, and type(obj) of each
Instances == {"a", "b"}

type(obj) == IF obj = "b" THEN "B" ELSE "A"

\* DispatchMethod(self.predicates, self.callable, self.get_key_lookup):
\* a dispatch with a registry of its own and nothing registered
DispatchMethod(p) == [index |-> create_index(p), known_keys |-> {}]

\* DispatchMethodDescriptor.__init__, on a method with one key predicate;
\* methods holds the DispatchMethod objects made so far, _cache points at
\* them by their position
InitDescriptor ==
  /\ predicate = key_predicate(None)
  /\ index = create_index(predicate)
  /\ known_keys = {}
  /\ hashorder = <<"f", "g">>
  /\ registered = {}
  /\ last = NoCall
  /\ single_value = None
  /\ dispatch = NoDispatch
  /\ threads = NoThreads
  /\ descriptor \in {[cache_bound_method |-> c, _cache |-> <<>>,
                      methods |-> <<>>] : c \in BOOLEAN}
  /\ instances = <<>>

\* a faulty variant: the cache is kept by the class that defines the method
Descriptor_get_defining(d, cls) ==
  IF "A" \in DOMAIN d._cache THEN <<d, d._cache["A"]>>
  ELSE <<[d EXCEPT
            !._cache = [c \in {"A"} |-> Len(d.methods) + 1],
            !.methods = Append(d.methods, DispatchMethod(predicate))],
         Len(d.methods) + 1>>

\* the first half of __get__: self._cache.get(type), and on None a new
\* DispatchMethod stored as self._cache[type]; gives the descriptor after
\* and the DispatchMethod in the local variable dispatch
Descriptor_get(d, cls) ==
  IF cls \in DOMAIN d._cache THEN <<d, d._cache[cls]>>
  ELSE <<[d EXCEPT
            !._cache = [c \in (DOMAIN d._cache) \cup {cls} |->
                          IF c = cls THEN Len(d.methods) + 1
                          ELSE d._cache[c]],
            !.methods = Append(d.methods, DispatchMethod(predicate))],
         Len(d.methods) + 1>>

\* the attribute read obj.name, or cls.name when obj is None: an instance
\* that holds a bound method gives it back without the descriptor, else
\* __get__(obj, cls) runs. Gives <<descriptor, instances, DispatchMethod>>.
GetAttr(obj, cls) ==
  IF obj # None /\ obj \in DOMAIN instances
  THEN <<descriptor, instances, instances[obj]>>
  ELSE LET found == Descriptor_get(descriptor, cls)
           d == found[1]
           method == found[2]
       IN  IF obj # None /\ d.cache_bound_method
           THEN <<d, [o \in (DOMAIN instances) \cup {obj} |->
                        IF o = obj THEN method ELSE instances[o]], method>>
           ELSE <<d, instances, method>>

\* the receivers of an attribute read: a class, or an instance and its type
Receivers ==
  {<<None, cls>> : cls \in OwnerClasses} \cup
  {<<obj, type(obj)>> : obj \in Instances}

\* obj.name or cls.name, and nothing done with the method
Get(obj, cls) ==
  LET got == GetAttr(obj, cls)
  IN  /\ descriptor' = got[1]
      /\ instances' = got[2]
      /\ last' = [op |-> "get", obj |-> obj, type |-> cls, method |-> got[3]]
      /\ UNCHANGED <<predicate, index, known_keys, hashorder, registered,
                     single_value, dispatch, threads>>

\* obj.name.register_value(key, value): PredicateRegistry.register on the
\* registry of the method that the read gave
RegisterThrough(obj, cls, key, value) ==
  LET got == GetAttr(obj, cls)
      method == got[3]
      registry == got[1].methods[method]
  IN  /\ instances' = got[2]
      /\ IF key \in registry.known_keys
         THEN /\ descriptor' = got[1]
              /\ last' = [op |-> "register", obj |-> obj, type |-> cls,
                          method |-> method, key |-> key, value |-> value,
                          raised |-> "RegistrationError"]
              /\ UNCHANGED registered
         ELSE /\ descriptor' =
                   [got[1] EXCEPT !.methods[method] =
                      [index |-> index_add(predicate, registry.index, key,
                                           value),
                       known_keys |-> registry.known_keys \cup {key}]]
              /\ registered' = registered \cup {<<cls, key, value>>}
              /\ last' = [op |-> "register", obj |-> obj, type |-> cls,
                          method |-> method, key |-> key, value |-> value,
                          raised |-> None]
      /\ UNCHANGED <<predicate, index, known_keys, hashorder, single_value,
                     dispatch, threads>>

\* obj.name.component(key): the lookup in the registry of the method
ComponentThrough(obj, cls, key) ==
  LET got == GetAttr(obj, cls)
      method == got[3]
      registry == got[1].methods[method]
  IN  /\ descriptor' = got[1]
      /\ instances' = got[2]
      /\ last' = [op |-> "component", obj |-> obj, type |-> cls,
                  method |-> method, key |-> key,
                  result |-> PredicateRegistry_component(
                               predicate, registry.index, hashorder, key)]
      /\ UNCHANGED <<predicate, index, known_keys, hashorder, registered,
                     single_value, dispatch, threads>>

DoGet == \E r \in Receivers : Get(r[1], r[2])

DoRegisterThrough ==
  \E r \in Receivers, key \in ExactKeys, value \in Values :
    RegisterThrough(r[1], r[2], key, value)

DoComponentThrough ==
  \E r \in Receivers, key \in ExactKeys : ComponentThrough(r[1], r[2], key)

NextDescriptor == DoGet \/ DoRegisterThrough \/ DoComponentThrough

\* a dispatch method read through a class, its subclass and their instances
SpecDescriptor == InitDescriptor /\ [][NextDescriptor]_vars

\* a Dispatch and a DispatchMethod with the registry they own
SpecDispatch == InitDispatch /\ [][NextDispatch]_vars

\* a SingleValueRegistry
SpecSingleValue == InitSingleValue /\ [][NextSingleValue]_vars

\* ------------------------------------------------------------ properties
\* component(key) on the registry as it is
Resolve(key) == PredicateRegistry_component(predicate, index, hashorder, key)

\* the value a successful register call recorded for the known key k
RegisteredValue(k) == CHOOSE v \in Values : <<k, v>> \in registered

\* the values of the successful register calls
RegisteredValues == {r[2] : r \in registered}

\* the axes of the registry in order
Axes == IF IsMulti(predicate) THEN predicate.predicates ELSE <<predicate>>

\* C1: register(key, value) with key already known raises RegistrationError,
\* leaves the index and the known-key set as they were, and resolving key
\* afterwards still returns the value of the first registration.
C1_DuplicateKeepsFirst ==
  [][(last'.op = "register" /\ last'.raised = "RegistrationError") =>
       /\ last'.key \in known_keys
       /\ index' = index
       /\ known_keys' = known_keys
       /\ PredicateRegistry_component(predicate', index', hashorder', last'.key)
            = RegisteredValue(last'.key)]_vars

\* the classes after c in its method resolution order
ProperAncestors(c) == {getmro(c)[i] : i \in 2..Len(getmro(c))}

\* the first class of the mro of t that is registered, None without one
FirstRegistered(t) ==
  LET mro == getmro(t)
      held == {i \in 1..Len(mro) : mro[i] \in known_keys}
  IN  IF held = {} THEN None
      ELSE mro[CHOOSE i \in held : \A j \in held : i <= j]

\* C2: on a type-hierarchy axis with A and its descendant B both registered,
\* resolving B, or any type whose first registered ancestor in its method
\* resolution order is B, returns the implementation registered for B.
C2_DescendantWins ==
  predicate.kind = "class" =>
    \A b \in known_keys : \A a \in known_keys \cap ProperAncestors(b) :
      \A t \in Classes :
        FirstRegistered(t) = b =>
          /\ Resolve(t) = RegisteredValue(b)
          /\ (RegisteredValue(a) # RegisteredValue(b) =>
                Resolve(t) # RegisteredValue(a))

\* B resolved to the implementation of A, registered after object, with
\* another implementation registered for object
C2_Witness ==
  /\ predicate.kind = "class"
  /\ known_keys = {"object", "A"}
  /\ RegisteredValue("A") # RegisteredValue("object")
  /\ last.op = "component" /\ last.key = "B"
  /\ last.result = RegisteredValue("A")

\* C3: MultiIndex.get of a combination c gives a result only if c itself was
\* registered as a full key, and then the implementation registered under c.
C3_NoCrossMatch ==
  IsMulti(predicate) =>
    \A c \in LookupKeys(predicate) :
      LET result == MultiIndex_get(index, c, NOT_FOUND)
      IN  result # {NOT_FOUND} =>
            c \in known_keys /\ result = {RegisteredValue(c)}

\* C4: once register(k, v) has succeeded, resolve(k) returns v in every later
\* state of the registry.
C4_RegisteredKeyResolves ==
  \A r \in registered : Resolve(r[1]) = r[2]

\* C5: the set MultiIndex.get produces for a combination has at most one
\* element.
C5_AtMostOne ==
  IsMulti(predicate) =>
    \A c \in LookupKeys(predicate) :
      LET result == MultiIndex_get(index, c, NOT_FOUND)
      IN  result # {NOT_FOUND} => Cardinality(result) <= 1

\* the product of the two per-axis orders, the second axis varying fastest
ProductOrder(key) ==
  LET o1 == Predicate_permutations(predicate.predicates[1], key[1])
      o2 == Predicate_permutations(predicate.predicates[2], key[2])
  IN  [n \in 1..(Len(o1) * Len(o2)) |->
         <<o1[((n - 1) \div Len(o2)) + 1], o2[((n - 1) % Len(o2)) + 1]>>]

\* the first combination of order that is a registered key, <<>> without one
FirstRegisteredIn(order) ==
  LET hit == {n \in 1..Len(order) : order[n] \in known_keys}
  IN  IF hit = {} THEN <<>>
      ELSE order[CHOOSE n \in hit : \A m \in hit : n <= m]

\* C6: the combined specificity order is the product of the per-axis orders,
\* first axis slowest, and resolve returns the implementation registered under
\* the first combination of that order that has a match; with (specific1,
\* ancestor2) and (ancestor1, specific2) registered and nothing more specific,
\* (specific1, specific2) resolves to the former.
C6_FirstCombinationWins ==
  (IsMulti(predicate) /\ Len(predicate.predicates) = 2) =>
    \A key \in LookupKeys(predicate) :
      LET order == ProductOrder(key)
      IN  /\ multipredicate_permutations(predicate.predicates, key) = order
          /\ FirstRegisteredIn(order) # <<>> =>
               Resolve(key) = RegisteredValue(FirstRegisteredIn(order))
          /\ (/\ \A i \in 1..2 : predicate.predicates[i].kind = "class"
              /\ key[1] # "object" /\ key[2] # "object"
              /\ known_keys = {<<key[1], "object">>, <<"object", key[2]>>}) =>
               Resolve(key) = RegisteredValue(<<key[1], "object">>)

\* every axis of the registry is a class axis
AllClassAxes == \A i \in 1..Len(Axes) : Axes[i].kind = "class"

\* the key that is object on every axis
UniversalKey ==
  IF IsMulti(predicate) THEN [i \in 1..Len(Axes) |-> "object"] ELSE "object"

\* C7: in a registry whose axes are all type-hierarchy axes and that holds a
\* registration that is the universal type on every axis (the key object, or
\* (object, .., object)), resolve of any key returns a registered
\* implementation, never a miss.
C7_FallbackTotality ==
  (AllClassAxes /\ UniversalKey \in known_keys) =>
    \A key \in LookupKeys(predicate) : Resolve(key) \in RegisteredValues

\* a key of a classic class and an unregistered class, with only the
\* universal key registered, resolved to that registration
C7_Witness ==
  /\ IsMulti(predicate) /\ AllClassAxes
  /\ known_keys = {UniversalKey}
  /\ last.op = "component" /\ last.key = <<"Old", "B">>
  /\ last.result = RegisteredValue(UniversalKey)

\* a class axis and a key axis, neither with a fallback
ClassKeyAxes ==
  /\ IsMulti(predicate) /\ Len(predicate.predicates) = 2
  /\ predicate.predicates[1] = class_predicate(None)
  /\ predicate.predicates[2] = key_predicate(None)

\* C8: with a hierarchy axis and an exact axis, no fallback declared: a lookup
\* whose exact value was never registered resolves to no implementation, and
\* (AnySubtype, v) with (object, v) registered and no more specific key
\* registered under v resolves to the implementation of (object, v).
C8_ExactAxis ==
  ClassKeyAxes =>
    \A key \in LookupKeys(predicate) :
      /\ (\A k \in known_keys : k[2] # key[2]) => Resolve(key) \notin Values
      /\ (/\ <<"object", key[2]>> \in known_keys
          /\ \A k \in known_keys :
               (k[2] = key[2] /\ k[1] \in Elements(getmro(key[1])))
                 => k[1] = "object") =>
           Resolve(key) = RegisteredValue(<<"object", key[2]>>)

\* no axis was given a fallback
NoDeclaredFallback == \A i \in 1..Len(Axes) : Axes[i].fallback = None

\* the index gives nothing for any combination of the order of key
NoCombinationMatches(key) ==
  LET perms == permutations(predicate, key)
  IN  \A j \in 1..Len(perms) :
        index_get(predicate, index, perms[j], NOT_FOUND) = {NOT_FOUND}

AxisHolds(i, k) ==
  LET d == IF IsMulti(predicate) THEN index[i] ELSE index
  IN  \E c \in DOMAIN d : c \in Elements(Predicate_permutations(Axes[i], k))

Reporting(key) ==
  {i \in 1..Len(Axes) : Axes[i].fallback # None /\ ~AxisHolds(i, key[i])}

\* the axes that hold no value of the specificity order of their component
Missing(key) == {i \in 1..Len(Axes) : ~AxisHolds(i, key[i])}

Least(s) == CHOOSE i \in s : \A j \in s : i <= j

\* C11: when no combination of the specificity order matches, a composite
\* registry returns the declared fallback of the first axis, in axis order,
\* that reports one; an axis that declares none is skipped and never hides
\* the fallback of a later axis; when no axis reports one the result is a
\* miss.
C11_FirstDeclaredFallback ==
  (/\ IsMulti(predicate)
   /\ last.op = "component"
   /\ NoCombinationMatches(last.key)) =>
     IF Reporting(last.key) # {}
     THEN last.result = Axes[Least(Reporting(last.key))].fallback
     ELSE last.result \in {None, NOT_FOUND}

\* C11 as amended: when no combination matches, the result is the fallback
\* of the first axis, in axis order, that holds no value of the specificity
\* order of its component: the declared value, or None when that axis
\* declares none, whatever later axes declare; an axis that holds such a
\* value is passed over, and when every axis holds one the result is
\* NOT_FOUND.
C11_FirstMissingAxisFallback ==
  IsMulti(predicate) =>
    \A key \in LookupKeys(predicate) :
      NoCombinationMatches(key) =>
        /\ Resolve(key) =
             IF Missing(key) = {} THEN NOT_FOUND
             ELSE Axes[Least(Missing(key))].fallback
        /\ PredicateRegistry_fallback(predicate, index, key) = Resolve(key)

\* the first axis held an ancestor of the key's class and was passed over,
\* and the second axis, holding nothing for its component, gave its fallback
C11_Witness ==
  /\ predicate = MultiPredicate(<<class_predicate(None), key_predicate(FB2)>>)
  /\ last.op = "component"
  /\ NoCombinationMatches(last.key)
  /\ AxisHolds(1, last.key[1]) /\ ~AxisHolds(2, last.key[2])
  /\ last.result = FB2

\* C12: a SingleValueRegistry accepts one registration over its lifetime,
\* whatever the value: every register call after the first raises
\* RegistrationError and leaves the slot as it was, and every component call
\* after the first registration returns the first registered value.
C12_AtMostOneRegistration ==
  [][/\ (last'.op = "register" /\ registered # {}) =>
          (last'.raised = "RegistrationError" /\ single_value' = single_value)
     /\ (last'.op = "component" /\ registered' # {}) =>
          \E key \in SingleKeys : registered' = {<<key, last'.result>>}]_vars

C16_LookupsReadOnly ==
  [][last'.op \in {"component", "fallback", "all"} =>
       /\ index' = index
       /\ known_keys' = known_keys
       /\ predicate' = predicate /\ hashorder' = hashorder]_vars

\* all was called on a registry that holds registrations and gave two
\* implementations
C16_Witness ==
  /\ last.op = "all"
  /\ Cardinality(known_keys) > 1
  /\ Len(last.result) > 1

\* the values registered under the keys of perms from position i on that
\* are registered, in the order of perms
RECURSIVE RegisteredAlong(_, _)
RegisteredAlong(perms, i) ==
  IF i > Len(perms) THEN <<>>
  ELSE (IF perms[i] \in known_keys THEN <<RegisteredValue(perms[i])>>
        ELSE <<>>) \o RegisteredAlong(perms, i + 1)

\* C19: all(key) gives, most specific first, one implementation for every
\* combination of the specificity order of key that has a match, the one
\* registered for it, and nothing else; when it gives anything its first
\* element is what component(key) returns.
C19_AllEnumeratesMatches ==
  last.op = "all" =>
    /\ last.result = RegisteredAlong(permutations(predicate, last.key), 1)
    /\ last.result # <<>> => Head(last.result) = Resolve(last.key)

\* component(key) on the registry the Dispatch owns, as it is
DispatchResolve(key) ==
  key_lookup_component(predicate, index, single_value, hashorder, key)

WholeKeys == predicate = NoPredicate \/ ~IsMulti(predicate)

DispatchAll(p, idx, v, order, key) ==
  IF p = NoPredicate THEN SingleValueRegistry_all(v, key)
  ELSE PredicateRegistry_all(p, idx, order, key)

\* no value of the set prior is returned for any arguments by component or
\* by all on the registry of the given fields
NoneReturned(prior, p, idx, v, order, predicates) ==
  \A args \in DispatchArgs(predicates) :
    LET key == registry_key(p, args)
    IN  /\ key_lookup_component(p, idx, v, order, key) \notin prior
        /\ Elements(DispatchAll(p, idx, v, order, key)) \cap prior = {}

\* C17: add_predicates appends the given predicates to the current ones and
\* drops every registration: right after it the predicates are the old list
\* followed by the new ones, the known-key set is empty, so that any key
\* can be registered again, and no implementation registered before is
\* returned by component or all for any arguments.
C17_AddPredicatesClears ==
  [][last'.op = "add_predicates" =>
       /\ dispatch'.predicates = dispatch.predicates \o last'.predicates
       /\ known_keys' = {} /\ single_value' = None
       /\ NoneReturned(RegisteredValues, predicate', index', single_value',
                       hashorder', dispatch'.predicates)]_vars

\* add_predicates was called on a dispatch over a class axis that had
\* registrations, and left a registry over two axes without any
C17_Witness ==
  /\ last.op = "add_predicates" /\ last.had # {}
  /\ dispatch.predicates = <<class_predicate(None), key_predicate(None)>>
  /\ known_keys = {} /\ index = <<KeyIndex, KeyIndex>>

\* C18: clean puts the dispatch function back as it was created, after any
\* register and add_predicates calls: the registrations and the known-key
\* set are dropped, so that a key registered before can be registered
\* again, the predicates are those given at creation, without the ones
\* added since, and the wrapped function is the same.
C18_CleanRestores ==
  [][/\ dispatch'.original_predicates = dispatch.original_predicates
     /\ dispatch'.wrapped_func = dispatch.wrapped_func
     /\ last'.op = "clean" =>
          /\ dispatch'.predicates = dispatch.original_predicates
          /\ predicate' =
               create_predicates_registry(dispatch.original_predicates).predicate
          /\ index' =
               create_predicates_registry(dispatch.original_predicates).index
          /\ known_keys' = {} /\ single_value' = None
          /\ NoneReturned(RegisteredValues, predicate', index',
                          single_value', hashorder',
                          dispatch'.predicates)]_vars

\* clean was called on a dispatch created over one class axis that held a
\* registration under a key of two axes, and left the one axis and nothing
\* registered
C18_Witness ==
  /\ last.op = "clean"
  /\ \E r \in last.had : r[1] \in RegClasses \X ExactKeys
  /\ dispatch.predicates = <<class_predicate(None)>>
  /\ known_keys = {} /\ index = KeyIndex

\* the argument shape of a callable: the number of its arguments, whether
\* it takes *args, whether it takes **kw
Shape(a) == <<Len(a.args), a.varargs # None, a.keywords # None>>

\* the shape of a callable without its first argument
ShapeWithoutFirst(a) == <<Len(a.args) - 1, a.varargs # None, a.keywords # None>>

\* the candidate of a register call cannot be called, or its shape is not
\* that of the dispatch function (less its first argument under
\* register_function)
Incompatible(call, dispatch_func) ==
  \/ arginfo(call.func) = NoArgInfo
  \/ /\ call.op = "register"
     /\ Shape(arginfo(call.func)) # Shape(arginfo(dispatch_func))
  \/ /\ call.op = "register_function"
     /\ Shape(arginfo(call.func)) # ShapeWithoutFirst(arginfo(dispatch_func))

\* C20: Dispatch.register and DispatchMethod.register_function check the
\* signature of the candidate before the registry is touched: with a
\* candidate whose argument shape is not that of the dispatch function the
\* call raises RegistrationError and leaves the index and the known-key set
\* as they were, so that the key can still be registered afterwards.
C20_SignatureCheckedFirst ==
  [][(/\ last'.op \in {"register", "register_function"}
      /\ Incompatible(last', dispatch.wrapped_func)) =>
        /\ last'.raised = "RegistrationError"
        /\ index' = index
        /\ known_keys' = known_keys
        /\ single_value' = single_value]_vars

\* register was called with h(obj, extra) on a dispatch over def
\* default(obj) under a key not registered yet, raised, and the key is
\* still not known
C20_Witness ==
  /\ last.op = "register" /\ last.func = "h"
  /\ dispatch.wrapped_func = "default"
  /\ dispatch.predicates = <<class_predicate(None)>>
  /\ last.raised = "RegistrationError"
  /\ known_keys = {"object"} /\ last.key = <<"A">>

\* C21: same_signature accepts a candidate exactly when the number of its
\* named arguments, whether it takes *args and whether it takes **kw are
\* those of the dispatch function, whatever the names of the arguments, of
\* *args and of **kw; validate_signature raises exactly when it does not.
C21_ShapeOnly ==
  /\ last.op = "same_signature" =>
       (last.result <=> Shape(last.a) = Shape(last.b))
  /\ (last.op = "validate_signature" /\ last.f # "s") =>
       (last.raised = None <=>
          Shape(arginfo(last.f)) = Shape(arginfo(last.dispatch)))

\* the threads whose register call is over
Finished == {t \in Threads : threads.calls[t].pc \in {"returned", "raised"}}

\* the threads whose register call returned without raising
Succeeded == {t \in Threads : threads.calls[t].pc = "returned"}

\* the calls of t and u returned for one key with two implementations
BothSucceeded(t, u) ==
  /\ t # u
  /\ {t, u} \subseteq Succeeded
  /\ threads.calls[t].key = threads.calls[u].key
  /\ threads.calls[t].value # threads.calls[u].value

\* C22: with a lock of the callers around every register call, of the calls
\* made with one key exactly one returns and the others raise
\* RegistrationError, and each known key holds the one implementation of
\* that call; without the lock, two calls with one key that both returned
\* (both passed the known-key check before either recorded the key) left
\* that key with two implementations in the index.
C22_RegisterNeedsLock ==
  /\ threads.locked =>
       /\ \A t \in Finished :
            Cardinality({u \in Succeeded :
                           threads.calls[u].key = threads.calls[t].key}) = 1
       /\ \A k \in known_keys :
            Cardinality({r \in registered : r[1] = k}) = 1
  /\ \A t \in Threads, u \in Threads :
       BothSucceeded(t, u) =>
         {threads.calls[t].value, threads.calls[u].value}
           \subseteq index_get(predicate, index, threads.calls[t].key, None)

\* without the lock two calls with one key have both returned
C22_Witness ==
  /\ ~threads.locked
  /\ \E t \in Threads, u \in Threads : BothSucceeded(t, u)

\* with the lock one of two calls with one key returned and the other raised
C22_LockedWitness ==
  /\ threads.locked
  /\ \E t \in Succeeded, u \in Finished \ Succeeded :
       threads.calls[t].key = threads.calls[u].key

\* the values registered through class cls under key, in the calls made
RegisteredIn(made, cls, key) ==
  {r[3] : r \in {q \in made : q[1] = cls /\ q[2] = key}}

RegisteredThrough(cls, key) == RegisteredIn(registered, cls, key)

\* C23: every read of the dispatch method through a class or one of its
\* instances gives the DispatchMethod made on the first read for that class
\* (cache entries are never replaced, the bound method kept on an instance
\* is the one of its class), two classes, a class and its subclass
\* included, have distinct DispatchMethods, a registration through one
\* class changes the registry of no other class, and a lookup through a
\* class finds only what was registered through that class.
C23_OnePerClass ==
  [][/\ \A c \in DOMAIN descriptor._cache :
          /\ c \in DOMAIN descriptor'._cache
          /\ descriptor'._cache[c] = descriptor._cache[c]
          /\ c # last'.type =>
               descriptor'.methods[descriptor._cache[c]]
                 = descriptor.methods[descriptor._cache[c]]
     /\ last'.type \in DOMAIN descriptor'._cache
     /\ last'.method = descriptor'._cache[last'.type]
     /\ \A obj \in DOMAIN instances' :
          instances'[obj] = descriptor'._cache[type(obj)]
     /\ \A c \in DOMAIN descriptor'._cache, d \in DOMAIN descriptor'._cache :
          c # d => descriptor'._cache[c] # descriptor'._cache[d]
     /\ \A c \in DOMAIN descriptor'._cache :
          descriptor'.methods[descriptor'._cache[c]].known_keys
            = {k \in ExactKeys : RegisteredIn(registered', c, k) # {}}
     /\ last'.op = "component" =>
          IF RegisteredIn(registered', last'.type, last'.key) = {}
          THEN last'.result = None
          ELSE RegisteredIn(registered', last'.type, last'.key)
                 = {last'.result}
    ]_vars

\* a key registered through A is looked up through an instance of the
\* subclass B, which keeps its bound method, and is not found
C23_Witness ==
  /\ last.op = "component"
  /\ last.obj = "b"
  /\ "b" \in DOMAIN instances
  /\ RegisteredThrough("A", last.key) # {}
  /\ RegisteredThrough("B", last.key) = {}
  /\ last.result = None

\* the members of sequence seq are all different
NoRepeat(seq) == \A i \in 1..Len(seq), j \in 1..Len(seq) :
                   seq[i] = seq[j] => i = j

\* C24: class_permutations(T) starts with T, goes on with the classes of
\* the mro of T in their order and ends with object, which is appended
\* when the mro does not end with it and not repeated when it does; no
\* class is in it twice and it has at most one member more than the mro.
C24_MostSpecificFirst ==
  (last.op = "permutations" /\ predicate.kind = "class") =>
    LET result == last.result
        mro == getmro(last.key)
    IN  /\ result[1] = last.key
        /\ Len(result) >= Len(mro)
        /\ SubSeq(result, 1, Len(mro)) = mro
        /\ result[Len(result)] = "object"
        /\ Len(result) = (IF mro[Len(mro)] = "object" THEN Len(mro)
                          ELSE Len(mro) + 1)
        /\ NoRepeat(result)

\* the permutations of a classic class with a classic base
C24_Witness ==
  /\ last.op = "permutations"
  /\ predicate.kind = "class"
  /\ last.key = "OldB"
  /\ last.result = <<"OldB", "Old", "object">>

\* the set that axis i of the index holds for keys[i], {} when it has none
AxisSet(keys, i) ==
  IF keys[i] \in DOMAIN index[i] THEN index[i][keys[i]] ELSE {}

\* what get is to return: the values held on every axis, else the default
Reference(keys, default) ==
  LET common == {v \in Values : \A i \in 1..Len(keys) : v \in AxisSet(keys, i)}
  IN  IF common = {} THEN {default} ELSE common

\* C25: MultiIndex.get(keys, default) returns the default when an axis holds
\* no set for its key or when no value is in the sets of all axes, and
\* otherwise exactly the values that are in the sets of all axes, whatever
\* the sizes of the sets; it never returns an empty set.
C25_GetIsIntersection ==
  last.op = "get" =>
    /\ last.result = Reference(last.keys, last.default)
    /\ last.result # {}
    /\ (\E i \in 1..Len(last.keys) : AxisSet(last.keys, i) = {}) =>
         last.result = {last.default}

\* get found one value where an axis holds two and another holds one
C25_Witness ==
  /\ last.op = "get"
  /\ Len(last.keys) = 3
  /\ Cardinality(AxisSet(last.keys, 1)) = 2
  /\ Cardinality(AxisSet(last.keys, 3)) = 1
  /\ last.result = AxisSet(last.keys, 3)

\* the values that d, the dict of a KeyIndex, holds under x
Stored(d, x) == IF x \in DOMAIN d THEN d[x] ELSE {}

\* C26: in a registry over a MultiPredicate, value v is in the set of axis i
\* under x exactly when a successful register call had a key k with
\* k[i] = x and the value v, and the known keys are the keys of those
\* calls; a successful register(k, v) adds v under k[i] on every axis and k
\* to the known keys and changes the set of no other axis value, and no
\* other call changes the index or the known keys.
C26_IndexConsistent ==
  [][/\ \A i \in 1..Len(index') :
          \A x \in AxisKeys(Axes[i]), v \in Values :
            v \in Stored(index'[i], x)
              <=> \E r \in registered' : r[1][i] = x /\ r[2] = v
     /\ known_keys' = {r[1] : r \in registered'}
     /\ IF last'.op = "register" /\ last'.raised = None
        THEN /\ known_keys' = known_keys \cup {last'.key}
             /\ \A i \in 1..Len(index') :
                  \A x \in AxisKeys(Axes[i]) :
                    Stored(index'[i], x) =
                      IF x = last'.key[i]
                      THEN Stored(index[i], x) \cup {last'.value}
                      ELSE Stored(index[i], x)
        ELSE index' = index /\ known_keys' = known_keys
    ]_vars

\* a second key with the same first member was registered with another
\* value: the set of that member on the first axis holds both values
C26_Witness ==
  /\ last.op = "register"
  /\ last.raised = None
  /\ Cardinality(known_keys) = 2
  /\ Stored(index[1], last.key[1]) = Values
  /\ Stored(index[2], last.key[2]) = {last.value}

\* what a lookup may return that no register call gave: the fallback
\* values the predicates can declare, None for none declared, and the miss
Unregistered == {FB1, FB2, None, NOT_FOUND}

\* C27: in a registry of zero axes, of one axis or of several, all(key)
\* yields only values of earlier successful register calls, so nothing when
\* nothing was registered, and component(key) returns such a value, a
\* declared fallback value or the miss.
C27_OnlyRegistered ==
  /\ last.op = "all" =>
       \A i \in 1..Len(last.result) : last.result[i] \in RegisteredValues
  /\ last.op = "component" =>
       last.result \in RegisteredValues \cup Unregistered

====
